---- MODULE Spec2Model ----
(***************************************************************************)
(* The DHT node of src/src/main.rs: the start-up command, the stdin        *)
(* producer task, the bounded input channel, the select! event loop and    *)
(* process_command over the Kademlia record store and query set.           *)
(***************************************************************************)
EXTENDS Integers, Sequences, FiniteSets, TLC

(* ------------------------------ bounds -------------------------------- *)

\* Lines stdin yields before it is at end of input.
MaxLines == 2

\* Capacity of the input channel.  main.rs:59 creates it with 100; the
\* model scales it down so that a full channel is reached.
ChannelCapacity == 2

\* Entries kept in the history of lines read and of lines received.
LogCap == 3

(* ------------------------- library constants -------------------------- *)

\* MemoryStore::new (main.rs:22) installs MemoryStoreConfig::default():
\* at most 1024 records, values shorter than 65 KiB.
max_records == 1024
max_value_bytes == 65 * 1024

\* kad_config.set_query_timeout(Duration::from_secs(10))
query_timeout_secs == 10

(* ------------------------------ inputs -------------------------------- *)

\* A raw line is a sequence of pieces: a word, a blank " " or the line
\* terminator "\n".  No two words are adjacent in the lines below.
Whitespace == {" ", "\n"}

InputLines ==
    { <<"put", " ", "k1", " ", "v1", "\n">>,
      <<"put", " ", "k1", " ", "v2", "\n">>,
      <<"put", " ", "k1", " ", "huge", "\n">>,
      <<" ", "get", " ", "k1", " ", "\n">>,
      <<"put", " ", "onlykey", "\n">>,
      <<"get", "\n">>,
      <<"list", "\n">>,
      <<"exit", "\n">>,
      <<"\n">> }

\* std::env::args(): the program name, then the start-up command if any.
Argvs ==
    { <<"program">>,
      <<"program", "put", "k1", "v1">>,
      <<"program", "put", "k1", "huge">>,
      <<"program", "get", "k1">>,
      <<"program", "put", "onlykey">>,
      <<"program", "exit">> }

\* The remote peers that may connect to the node's listen address.
Peers == {"p1"}

\* The inputs of the runs checked for progress: get and exit lines, with
\* or without a start-up put.
FairLines ==
    { <<" ", "get", " ", "k1", " ", "\n">>,
      <<"exit", "\n">> }

FairArgvs ==
    { <<"program">>,
      <<"program", "put", "k1", "v1">> }

\* Byte length of a value token; "huge" stands for a token of 65 KiB.
ValueLen(v) == IF v = "huge" THEN 65 * 1024 ELSE 2

(* --------------------------- string helpers --------------------------- *)

RECURSIVE TrimStart(_)
TrimStart(s) ==
    IF s # <<>> /\ Head(s) \in Whitespace THEN TrimStart(Tail(s)) ELSE s

RECURSIVE TrimEnd(_)
TrimEnd(s) ==
    IF s # <<>> /\ s[Len(s)] \in Whitespace
    THEN TrimEnd(SubSeq(s, 1, Len(s) - 1))
    ELSE s

\* str::trim
Trim(s) == TrimEnd(TrimStart(s))

IsWord(p) == p \notin Whitespace

\* str::split_whitespace().map(to_string).collect()
SplitWhitespace(s) == SelectSeq(s, IsWord)

(* ------------------------------- state -------------------------------- *)

VARIABLES
    pc,            \* main: "start", "loop", "exited" (break Ok), "failed" (Err)
    argv,          \* std::env::args()
    prodPc,        \* stdin task: "unspawned", "read", "send", "done"
    stdin,         \* "open" or "eof"
    nRead,         \* lines read from stdin so far
    lineBuf,       \* the trimmed line the task is about to send
    chan,          \* the mpsc channel's buffered lines
    recvBranch,    \* select!'s rx.recv() branch: "enabled" or "disabled"
    store,         \* MemoryStore: a set of records, one per key
    queries,       \* Kademlia's active queries
    nextQid,       \* the next QueryId
    routing,       \* Kademlia's routing table: the peers known
    expired,       \* ids of the active queries whose deadline has elapsed
    listenPending, \* listen_on's NewListenAddr event is still to be polled
    last,          \* the main task's latest step: what ran and what it printed
    lastPut,       \* history: per key, the latest put command and its outcome
    exitDispatched,\* history: an exit command has been dispatched
    startup,       \* history: runs and output of the start-up step
    loopActed,     \* history: the loop has dispatched a line or an event
    readLog,       \* history: the first LogCap lines the stdin task has read
    recvLog        \* history: the first LogCap lines the loop has received

vars == << pc, argv, prodPc, stdin, nRead, lineBuf, chan, recvBranch, store,
           queries, nextQid, routing, expired, listenPending, last, lastPut,
           exitDispatched,
           startup, loopActed, readLog, recvLog >>

producerVars == << prodPc, stdin, nRead, lineBuf >>
nodeVars == << store, queries, nextQid, routing, expired >>
histVars == << lastPut, exitDispatched, startup, loopActed >>

\* The first LogCap entries of a history.
Take(s, n) == IF Len(s) <= n THEN s ELSE SubSeq(s, 1, n)
Log(log, l) == Take(Append(log, l), LogCap)

(* ---------------------------- record store ---------------------------- *)

\* Record::new(key, value)
Record(k, v) == [key |-> k, value |-> v, publisher |-> "None"]

\* MemoryStorePut with an occupied entry left as it is (or_insert).
MemoryStorePut_KeepOld(st, r) ==
    IF ValueLen(r.value) >= max_value_bytes
    THEN [res |-> "ValueTooLarge", store |-> st]
    ELSE IF \E x \in st : x.key = r.key
    THEN [res |-> "Ok", store |-> st]
    ELSE IF Cardinality(st) >= max_records
    THEN [res |-> "MaxRecords", store |-> st]
    ELSE [res |-> "Ok", store |-> st \cup {r}]

\* MemoryStorePut that inserts the record before it reports the error.
MemoryStorePut_WriteThenFail(st, r) ==
    IF ValueLen(r.value) >= max_value_bytes
    THEN [res |-> "ValueTooLarge",
          store |-> {x \in st : x.key # r.key} \cup {r}]
    ELSE IF \E x \in st : x.key = r.key
    THEN [res |-> "Ok", store |-> {x \in st : x.key # r.key} \cup {r}]
    ELSE IF Cardinality(st) >= max_records
    THEN [res |-> "MaxRecords", store |-> st]
    ELSE [res |-> "Ok", store |-> st \cup {r}]

\* MemoryStore::put as called at main.rs:129 and inside put_record.
MemoryStorePut(st, r) ==
    IF ValueLen(r.value) >= max_value_bytes
    THEN [res |-> "ValueTooLarge", store |-> st]
    ELSE IF \E x \in st : x.key = r.key
    THEN [res |-> "Ok", store |-> {x \in st : x.key # r.key} \cup {r}]
    ELSE IF Cardinality(st) >= max_records
    THEN [res |-> "MaxRecords", store |-> st]
    ELSE [res |-> "Ok", store |-> st \cup {r}]

\* MemoryStoreGet that misses the records put_record has stamped.
MemoryStoreGet_Unstamped(st, k) ==
    {x \in st : x.key = k /\ x.publisher = "None"}

\* MemoryStore::get as called at main.rs:146: the records held for the key.
MemoryStoreGet(st, k) == {x \in st : x.key = k}

(* --------------------------- query engine ----------------------------- *)

\* A query as the engine registers it: its candidates are the peers the
\* routing table holds when it is created, and its deadline is the
\* configured query timeout counted from its creation.
NewQuery(qid, kind, k, quorum) ==
    [id |-> qid, kind |-> kind, key |-> k, quorum |-> quorum,
     candidates |-> routing, timeout |-> query_timeout_secs]

\* Kademlia::put_record(record, quorum): stamps the publisher, writes the
\* store again and registers a PutRecord query.
PutRecord(st, qs, qid, r, quorum) ==
    LET stamped == [r EXCEPT !.publisher = "local"]
        w == MemoryStorePut(st, stamped)
    IN  IF w.res # "Ok"
        THEN [res |-> "Err", store |-> st, queries |-> qs, nextQid |-> qid]
        ELSE [res |-> "Ok", store |-> w.store,
              queries |-> qs \cup {NewQuery(qid, "PutRecord", r.key, quorum)},
              nextQid |-> qid + 1]

\* GetRecord that registers nothing.
GetRecord_Dropped(qs, qid, k) == [queries |-> qs, nextQid |-> qid]

\* Kademlia::get_record(key): registers a GetRecord query.
GetRecord(qs, qid, k) ==
    [queries |-> qs \cup {NewQuery(qid, "GetRecord", k, "-")},
     nextQid |-> qid + 1]

\* How a query can end when the swarm is polled; Timeout is the end of a
\* query still active query_timeout_secs after its creation.  The events
\* of one query are taken as the one that ends it.
Outcomes(kind) ==
    IF kind = "PutRecord"
    THEN {"Ok", "QuorumFailed", "Timeout"}
    ELSE {"FoundRecord", "NotFound", "Timeout"}

\* A clock that never reaches a deadline.
Expired_Never(q) == FALSE

\* The query's deadline has elapsed: timeout seconds have passed since its
\* creation.
Expired(q) == q.id \in expired

\* An engine that ends a query without candidates only at its deadline.
QueryOutcomes_WaitsForDeadline(q) ==
    IF Expired(q) THEN {"Timeout"}
    ELSE IF q.candidates = {} THEN {}
    ELSE Outcomes(q.kind) \ {"Timeout"}

\* How query q can end at the next poll of the swarm.  A query whose
\* candidate set is empty is exhausted at once: a GetRecord ends NotFound
\* and a PutRecord, stored on no peer, ends QuorumFailed.  A query with
\* candidates ends with a result, or with Timeout once its deadline has
\* elapsed.
QueryOutcomes(q) ==
    IF q.candidates = {}
    THEN IF q.kind = "GetRecord" THEN {"NotFound"} ELSE {"QuorumFailed"}
    ELSE IF Expired(q) THEN Outcomes(q.kind)
    ELSE Outcomes(q.kind) \ {"Timeout"}

\* The engine ends query q at the next poll whatever the peers do.
MustEnd(q) == q.candidates = {} \/ Expired(q)

(* ------------------------- process_command ---------------------------- *)

IsPut(args) == Len(args) > 3 /\ args[2] = "put"

\* IsGet without the keyword test.
IsGet_NoKeyword(args) == Len(args) > 2

IsGet(args) == Len(args) > 2 /\ args[2] = "get"

\* The quorum of the publish with Quorum::Majority in place of Quorum::One.
PublishQuorum_Majority == "Majority"

\* Quorum::One at main.rs:134.
PublishQuorum == "One"

ProcessPut(args, st, qs, qid) ==
    LET key == args[3]
        value == args[4]
        w == MemoryStorePut(st, Record(key, value))
    IN  IF w.res # "Ok"
        THEN [res |-> "Err", store |-> w.store, queries |-> qs, nextQid |-> qid,
              trace |-> << <<"store.put", key, value>> >>]
        ELSE LET p == PutRecord(w.store, qs, qid, Record(key, value),
                                  PublishQuorum)
             IN  [res |-> "Ok", store |-> p.store, queries |-> p.queries,
                  nextQid |-> p.nextQid,
                  trace |-> << <<"store.put", key, value>>,
                               <<"Record stored locally", key, "-">>,
                               <<"put_record", key, value>>,
                               IF p.res = "Ok"
                               THEN <<"Publishing record to DHT", key, "-">>
                               ELSE <<"Error publishing to DHT", key, "-">> >>]

ProcessGet(args, st, qs, qid) ==
    LET key == args[3]
        found == MemoryStoreGet(st, key)
    IN  IF found # {}
        THEN [res |-> "Ok", store |-> st, queries |-> qs, nextQid |-> qid,
              trace |-> << <<"store.get", key, "-">>,
                           <<"Found record locally", key,
                             (CHOOSE x \in found : TRUE).value>> >>]
        ELSE LET g == GetRecord(qs, qid, key)
             IN  [res |-> "Ok", store |-> st, queries |-> g.queries,
                  nextQid |-> g.nextQid,
                  trace |-> << <<"store.get", key, "-">>,
                               <<"Record not found locally", key, "-">>,
                               <<"get_record", key, "-">>,
                               <<"Querying DHT", key, "-">> >>]

\* process_command whose else branch prints nothing.
ProcessCommand_SilentElse(args, st, qs, qid) ==
    IF IsPut(args) THEN ProcessPut(args, st, qs, qid)
    ELSE IF IsGet(args) THEN ProcessGet(args, st, qs, qid)
    ELSE [res |-> "Ok", store |-> st, queries |-> qs, nextQid |-> qid,
          trace |-> <<>>]

\* process_command: main.rs:115-163.
ProcessCommand(args, st, qs, qid) ==
    IF IsPut(args) THEN ProcessPut(args, st, qs, qid)
    ELSE IF IsGet(args) THEN ProcessGet(args, st, qs, qid)
    ELSE [res |-> "Ok", store |-> st, queries |-> qs, nextQid |-> qid,
          trace |-> << <<"Usage: put, get", "-", "-">> >>]

\* The put command a command line carries, recorded in lastPut.
NotePut(lp, args, res) ==
    IF Len(args) > 3 /\ args[2] = "put"
    THEN {x \in lp : x.key # args[3]}
         \cup {[key |-> args[3], value |-> args[4], ok |-> (res = "Ok")]}
    ELSE lp

(* -------------------------------- main -------------------------------- *)

Init ==
    /\ pc = "start"
    /\ argv \in Argvs
    /\ prodPc = "unspawned"
    /\ stdin = "open"
    /\ nRead = 0
    /\ lineBuf = <<>>
    /\ chan = <<>>
    /\ recvBranch = "enabled"
    /\ store = {}
    /\ queries = {}
    /\ nextQid = 0
    /\ routing = {}
    /\ expired = {}
    /\ listenPending = TRUE
    /\ last = [op |-> "none", args |-> <<>>, res |-> "-", trace |-> <<>>,
               store |-> {}, queries |-> {}, late |-> FALSE]
    /\ lastPut = {}
    /\ exitDispatched = FALSE
    /\ startup = [runs |-> 0, trace |-> <<>>]
    /\ loopActed = FALSE
    /\ readLog = <<>>
    /\ recvLog = <<>>

\* HasInitialCommand off by one.
HasInitialCommand_OffByOne(args) == ~ (Len(args) <= 2)

\* args.len() <= 1 at main.rs:43, negated.
HasInitialCommand(args) == ~ (Len(args) <= 1)

\* main.rs:43-48 and 55-76: no arguments, print the usage, enter the loop.
StartNoArgs ==
    /\ pc = "start"
    /\ ~ HasInitialCommand(argv)
    /\ pc' = "loop"
    /\ prodPc' = "read"
    /\ last' = [op |-> "banner", args |-> argv, res |-> "Ok",
                trace |-> << <<"Usage: put, get, exit", "-", "-">> >>,
                store |-> store, queries |-> queries, late |-> FALSE]
    /\ startup' = [runs |-> 0, trace |-> last'.trace]
    /\ UNCHANGED << argv, stdin, nRead, lineBuf, chan, recvBranch, nodeVars,
                    listenPending, lastPut, exitDispatched, loopActed,
                    readLog, recvLog >>

\* main.rs:49-52: process_command(&args, &mut swarm).await? and then the loop.
StartCommand ==
    /\ pc = "start"
    /\ HasInitialCommand(argv)
    /\ LET r == ProcessCommand(argv, store, queries, nextQid)
       IN  /\ store' = r.store
           /\ queries' = r.queries
           /\ nextQid' = r.nextQid
           /\ pc' = IF r.res = "Err" THEN "failed" ELSE "loop"
           /\ prodPc' = IF r.res = "Err" THEN prodPc ELSE "read"
           /\ last' = [op |-> "start", args |-> argv, res |-> r.res,
                       trace |-> r.trace, store |-> store, queries |-> queries, late |-> FALSE]
           /\ lastPut' = NotePut(lastPut, argv, r.res)
           /\ startup' = [runs |-> startup.runs + 1, trace |-> r.trace]
    /\ exitDispatched' = (exitDispatched \/ argv[2] = "exit")
    /\ UNCHANGED << argv, stdin, nRead, lineBuf, chan, recvBranch, routing,
                    expired, listenPending, loopActed, readLog, recvLog >>

(* ----------------------------- stdin task ----------------------------- *)

\* read_line returns Ok(n > 0) with one of the given lines: the line is
\* trimmed for sending.
ProducerRead(lines) ==
    /\ pc = "loop"
    /\ prodPc = "read"
    /\ stdin = "open"
    /\ nRead < MaxLines
    /\ \E l \in lines : lineBuf' = Trim(l)
    /\ nRead' = nRead + 1
    /\ prodPc' = "send"
    /\ readLog' = Log(readLog, lineBuf')
    /\ UNCHANGED << pc, argv, stdin, chan, recvBranch, nodeVars, listenPending,
                    last, histVars, recvLog >>

ProducerReadLine == ProducerRead(InputLines)

\* read_line returns Ok(0) at end of input: is_ok() holds, "" is sent.
ProducerReadEof ==
    /\ pc = "loop"
    /\ prodPc = "read"
    /\ stdin' = "eof"
    /\ lineBuf' = Trim(<<>>)
    /\ prodPc' = "send"
    /\ readLog' = Log(readLog, lineBuf')
    /\ UNCHANGED << pc, argv, nRead, chan, recvBranch, nodeVars, listenPending,
                    last, histVars, recvLog >>

\* read_line returns Err: the task breaks and drops tx.
ProducerReadErr ==
    /\ pc = "loop"
    /\ prodPc = "read"
    /\ stdin = "open"
    /\ prodPc' = "done"
    /\ UNCHANGED << pc, argv, stdin, nRead, lineBuf, chan, recvBranch, nodeVars,
                    listenPending, last, histVars, readLog, recvLog >>

\* A channel that takes a message whatever it holds.
ChannelHasRoom_Always(ch) == TRUE

\* mpsc::channel::<String>(100) at main.rs:59: a send completes only
\* while fewer messages than the capacity are buffered.
ChannelHasRoom(ch) == Len(ch) < ChannelCapacity

\* A channel that hands out the newest message first.
ChannelPush_Front(ch, l) == <<l>> \o ch

\* The channel queues the message behind those it holds.
ChannelPush(ch, l) == Append(ch, l)

\* A stdin task that holds the swarm and clears the store when it sends.
ProducerSend_TouchesStore ==
    /\ pc = "loop"
    /\ prodPc = "send"
    /\ ChannelHasRoom(chan)
    /\ chan' = ChannelPush(chan, lineBuf)
    /\ lineBuf' = <<>>
    /\ prodPc' = "read"
    /\ store' = {}
    /\ UNCHANGED << pc, argv, stdin, nRead, recvBranch, queries, nextQid,
                    routing, expired, listenPending, last, histVars, readLog,
                    recvLog >>

\* tx.send(line).await: suspends while the channel is full.
ProducerSend ==
    /\ pc = "loop"
    /\ prodPc = "send"
    /\ ChannelHasRoom(chan)
    /\ chan' = ChannelPush(chan, lineBuf)
    /\ lineBuf' = <<>>
    /\ prodPc' = "read"
    /\ UNCHANGED << pc, argv, stdin, nRead, recvBranch, nodeVars, listenPending,
                    last, histVars, readLog, recvLog >>

(* ----------------------------- event loop ----------------------------- *)

\* select! with `biased;`: the swarm is polled only when no line is ready.
SelectReady_Biased(branch) ==
    IF branch = "recv" THEN chan # <<>> ELSE chan = <<>>

\* A loop that awaits its outstanding queries before it selects again.
SelectReady_AwaitsQuery(branch) ==
    queries = {} /\ (branch = "recv" => chan # <<>>)

\* tokio::select! at main.rs:80: a branch can be taken when its future is
\* ready.  rx.recv() is ready with Some(line) when a line is buffered; the
\* swarm branch is taken whenever the swarm has an event, whatever the
\* channel holds.
SelectReady(branch) ==
    IF branch = "recv" THEN chan # <<>> ELSE TRUE

\* IsExit with another keyword.
IsExit_Quit(args) == args[1] = "quit"

\* args[0] == "exit": main.rs:85.
IsExit(args) == args[1] = "exit"

\* Some(line) = rx.recv(): main.rs:81-99.
LoopRecvLine ==
    /\ pc = "loop"
    /\ chan # <<>>
    /\ SelectReady("recv")
    /\ chan' = Tail(chan)
    /\ recvBranch' = "enabled"
    /\ loopActed' = TRUE
    /\ LET args == SplitWhitespace(Head(chan))
           cmd_args == <<"program">> \o args
           r == ProcessCommand(cmd_args, store, queries, nextQid)
       IN  IF args = <<>>
           THEN /\ last' = [op |-> "line", args |-> cmd_args, res |-> "Ok",
                            trace |-> <<>>, store |-> store,
                            queries |-> queries, late |-> FALSE]
                /\ UNCHANGED << pc, nodeVars, lastPut, exitDispatched >>
           ELSE IF IsExit(args)
           THEN /\ pc' = "exited"
                /\ exitDispatched' = TRUE
                /\ last' = [op |-> "line", args |-> cmd_args, res |-> "Ok",
                            trace |-> << <<"Exiting...", "-", "-">> >>,
                            store |-> store, queries |-> queries, late |-> FALSE]
                /\ UNCHANGED << nodeVars, lastPut >>
           ELSE /\ store' = r.store
                /\ queries' = r.queries
                /\ nextQid' = r.nextQid
                /\ last' = [op |-> "line", args |-> cmd_args, res |-> r.res,
                            trace |-> IF r.res = "Err"
                                      THEN Append(r.trace,
                                             <<"Error processing command",
                                               "-", "-">>)
                                      ELSE r.trace,
                            store |-> store, queries |-> queries, late |-> FALSE]
                /\ lastPut' = NotePut(lastPut, cmd_args, r.res)
                /\ exitDispatched' = (exitDispatched \/ args[1] = "exit")
                /\ UNCHANGED pc
    /\ recvLog' = Log(recvLog, Head(chan))
    /\ UNCHANGED << argv, producerVars, routing, expired, listenPending,
                    startup, readLog >>

\* rx.recv() yields None (channel closed and drained): the pattern
\* Some(line) fails, select! disables the branch and keeps waiting.
LoopRecvNone ==
    /\ pc = "loop"
    /\ chan = <<>>
    /\ prodPc = "done"
    /\ recvBranch = "enabled"
    /\ recvBranch' = "disabled"
    /\ UNCHANGED << pc, argv, producerVars, chan, nodeVars, listenPending,
                    last, histVars, readLog, recvLog >>

\* SwarmEvent::NewListenAddr: main.rs:102-104.
LoopNewListenAddr ==
    /\ pc = "loop"
    /\ SelectReady("swarm")
    /\ listenPending
    /\ listenPending' = FALSE
    /\ recvBranch' = "enabled"
    /\ loopActed' = TRUE
    /\ last' = [op |-> "event", args |-> <<>>, res |-> "Ok",
                trace |-> << <<"Listening on", "-", "-">> >>,
                store |-> store, queries |-> queries, late |-> FALSE]
    /\ UNCHANGED << pc, argv, producerVars, chan, nodeVars, lastPut,
                    exitDispatched, startup, readLog, recvLog >>

\* A handler that takes the local record back when its publish fails.
StoreAfterEvent_Rollback(st, q, o) ==
    IF q.kind = "PutRecord" /\ o \in {"QuorumFailed", "Timeout"}
    THEN {x \in st : x.key # q.key}
    ELSE st

\* The store after the Behaviour event of query q ending with outcome o:
\* main.rs:105-107 prints the event and touches nothing.
StoreAfterEvent(st, q, o) == st

\* SwarmEvent::Behaviour(event): main.rs:105-107, a query of the active set
\* ends and its result is printed.  The handler only prints: no event
\* handler of main.rs writes the store.
QueryEnds(q) ==
    /\ pc = "loop"
    /\ SelectReady("swarm")
    /\ q \in queries
    /\ \E o \in QueryOutcomes(q) :
          /\ queries' = queries \ {q}
          /\ expired' = expired \ {q.id}
          /\ store' = StoreAfterEvent(store, q, o)
          /\ last' = [op |-> "event", args |-> <<>>, res |-> "Ok",
                      trace |-> << <<"Network event received", q.key, o>> >>,
                      store |-> store, queries |-> queries,
                      late |-> Expired(q)]
    /\ recvBranch' = "enabled"
    /\ loopActed' = TRUE
    /\ UNCHANGED << pc, argv, producerVars, chan, nextQid, routing,
                    listenPending, lastPut, exitDispatched, startup,
                    readLog, recvLog >>

LoopQueryEvent == \E q \in queries : QueryEnds(q)

\* SwarmEvent::Behaviour(event) for a remote peer that connected to the
\* listen address: the routing table takes the peer in and the event is
\* printed (main.rs:105-107).
LoopRoutingUpdated ==
    /\ pc = "loop"
    /\ SelectReady("swarm")
    /\ \E p \in Peers \ routing :
          /\ routing' = routing \cup {p}
          /\ last' = [op |-> "event", args |-> <<>>, res |-> "Ok",
                      trace |-> << <<"Network event received", p,
                                     "RoutingUpdated">> >>,
                      store |-> store, queries |-> queries, late |-> FALSE]
    /\ recvBranch' = "enabled"
    /\ loopActed' = TRUE
    /\ UNCHANGED << pc, argv, producerVars, chan, store, queries, nextQid,
                    expired, listenPending, lastPut, exitDispatched, startup,
                    readLog, recvLog >>

\* Time passes: the deadline of the active query q elapses while the loop
\* runs.
DeadlineElapsesFor(q) ==
    /\ pc = "loop"
    /\ q \in queries
    /\ ~ Expired(q)
    /\ expired' = expired \cup {q.id}
    /\ UNCHANGED << pc, argv, producerVars, chan, recvBranch, store, queries,
                    nextQid, routing, listenPending, last, histVars, readLog,
                    recvLog >>

DeadlineElapses == \E q \in queries : DeadlineElapsesFor(q)

\* Any other SwarmEvent: main.rs:108, nothing is printed.
LoopOtherEvent ==
    /\ pc = "loop"
    /\ SelectReady("swarm")
    /\ recvBranch' = "enabled"
    /\ loopActed' = TRUE
    /\ last' = [op |-> "event", args |-> <<>>, res |-> "Ok", trace |-> <<>>,
                store |-> store, queries |-> queries, late |-> FALSE]
    /\ UNCHANGED << pc, argv, producerVars, chan, nodeVars, listenPending,
                    lastPut, exitDispatched, startup, readLog, recvLog >>

Next ==
    \/ StartNoArgs
    \/ StartCommand
    \/ ProducerReadLine
    \/ ProducerReadEof
    \/ ProducerReadErr
    \/ ProducerSend
    \/ LoopRecvLine
    \/ LoopRecvNone
    \/ LoopNewListenAddr
    \/ LoopQueryEvent
    \/ LoopRoutingUpdated
    \/ LoopOtherEvent
    \/ DeadlineElapses

Spec == Init /\ [][Next]_vars

\* select! polls its ready branches in random order on every iteration, so
\* a branch that stays ready is taken.
LoopFairness ==
    /\ WF_vars(LoopRecvLine)
    /\ WF_vars(LoopNewListenAddr)

\* The ids a query can carry: one per command.
QueryIds == 0 .. MaxLines

\* The poll of the swarm yields the end of query i once the engine has to
\* end it: its candidates are exhausted or its deadline has elapsed.
EngineFinalises(i) ==
    \E q \in queries : q.id = i /\ MustEnd(q) /\ QueryEnds(q)

\* Time passes for every active query, and a swarm that keeps being polled
\* ends every query it has to end.
QueryFairness ==
    \A i \in QueryIds :
        /\ WF_vars(\E q \in queries : q.id = i /\ DeadlineElapsesFor(q))
        /\ WF_vars(EngineFinalises(i))

FairInit == Init /\ argv \in FairArgvs

FairNext ==
    \/ StartNoArgs
    \/ StartCommand
    \/ ProducerRead(FairLines)
    \/ ProducerReadEof
    \/ ProducerReadErr
    \/ ProducerSend
    \/ LoopRecvLine
    \/ LoopRecvNone
    \/ LoopNewListenAddr
    \/ LoopQueryEvent
    \/ LoopRoutingUpdated
    \/ LoopOtherEvent
    \/ DeadlineElapses

FairSpec == FairInit /\ [][FairNext]_vars /\ LoopFairness /\ QueryFairness

(* ------------------------- reading the history ------------------------ *)

\* The latest step of the main task ran process_command or the loop's
\* dispatch of a line.
CmdStep == last.op \in {"start", "line"}

PutCmd(a) == Len(a) >= 4 /\ a[2] = "put"
GetCmd(a) == Len(a) >= 3 /\ a[2] = "get"
ExitLine == last.op = "line" /\ Len(last.args) >= 2 /\ last.args[2] = "exit"

Printed(tag, k, v) == \E i \in DOMAIN last.trace : last.trace[i] = <<tag, k, v>>
Calls(tag) == {i \in DOMAIN last.trace : last.trace[i][1] = tag}
RecordsOf(st, k) == {x \in st : x.key = k}

(* ------------------------------- claims ------------------------------- *)

\* C1 as stated: whenever get k is dispatched and the latest put command
\* for k carried v, the get prints v from the local store and submits no
\* query.
C1_Claim ==
    \A p \in lastPut :
        (CmdStep /\ GetCmd(last.args) /\ last.args[3] = p.key)
        => /\ Printed("Found record locally", p.key, p.value)
           /\ Calls("get_record") = {}
           /\ queries = last.queries

\* C1 amended: whenever get k is dispatched and the latest put command for
\* k carried v and its local store write succeeded, the get prints v from
\* the local store and submits no query.
C1_PutThenGet ==
    \A p \in lastPut :
        (CmdStep /\ GetCmd(last.args) /\ last.args[3] = p.key /\ p.ok)
        => /\ Printed("Found record locally", p.key, p.value)
           /\ Calls("get_record") = {}
           /\ queries = last.queries

C1_Witness ==
    /\ last.op = "line"
    /\ last.args = <<"program", "get", "k1">>
    /\ [key |-> "k1", value |-> "v1", ok |-> TRUE] \in lastPut
    /\ Printed("Found record locally", "k1", "v1")

\* C2 as stated: after a put k v2 that follows an earlier put of k, the
\* store holds exactly one record for k and its value is v2.
C2_Claim ==
    (CmdStep /\ PutCmd(last.args) /\ RecordsOf(last.store, last.args[3]) # {})
    => /\ Cardinality(RecordsOf(store, last.args[3])) = 1
       /\ \A x \in RecordsOf(store, last.args[3]) : x.value = last.args[4]

\* C2 amended: the store never holds two records for one key; after a put
\* k v2 whose local store write succeeded and that follows an earlier put
\* of k, the one record for k has value v2, and a get k then prints v2 and
\* no other value.
C2_LastWriteWins ==
    /\ \A x, y \in store : x.key = y.key => x = y
    /\ (CmdStep /\ PutCmd(last.args) /\ last.res = "Ok"
        /\ RecordsOf(last.store, last.args[3]) # {})
       => /\ Cardinality(RecordsOf(store, last.args[3])) = 1
          /\ \A x \in RecordsOf(store, last.args[3]) : x.value = last.args[4]
    /\ \A p \in lastPut :
          (CmdStep /\ GetCmd(last.args) /\ last.args[3] = p.key /\ p.ok)
          => \A i \in Calls("Found record locally") :
                 last.trace[i] = <<"Found record locally", p.key, p.value>>

C2_Witness ==
    /\ last.op = "line"
    /\ last.args = <<"program", "put", "k1", "v2">>
    /\ last.res = "Ok"
    /\ \E x \in last.store : x.key = "k1" /\ x.value = "v1"
    /\ \E x \in store : x.key = "k1" /\ x.value = "v2"

\* C3: a command that is neither a put with key and value, nor a get with
\* a key, nor an exit line leaves the store and the active queries as they
\* were and calls neither store.put, put_record nor get_record.
C3_MalformedNoChange ==
    (CmdStep /\ ~ PutCmd(last.args) /\ ~ GetCmd(last.args) /\ ~ ExitLine)
    => /\ store = last.store
       /\ queries = last.queries
       /\ Calls("store.put") = {}
       /\ Calls("put_record") = {}
       /\ Calls("get_record") = {}

C3_Witness ==
    /\ last.op = "line"
    /\ last.args = <<"program", "put", "onlykey">>
    /\ Printed("Usage: put, get", "-", "-")
    /\ store # {}
    /\ store = last.store

\* C4: a get k leaves the store as it was; when the store held k it prints
\* the stored value and the active queries are unchanged; when it did not,
\* exactly one GetRecord query for k is added, and it is still active when
\* the command has returned to the loop.
C4_GetLocalFirst ==
    (CmdStep /\ GetCmd(last.args))
    => LET k == last.args[3]
           held == RecordsOf(last.store, k)
       IN  /\ store = last.store
           /\ held # {}
              => /\ queries = last.queries
                 /\ Calls("get_record") = {}
                 /\ \E x \in held : Printed("Found record locally", k, x.value)
           /\ held = {}
              => /\ Cardinality(Calls("get_record")) = 1
                 /\ Cardinality(queries \ last.queries) = 1
                 /\ last.queries \subseteq queries
                 /\ \A q \in queries \ last.queries :
                        q.kind = "GetRecord" /\ q.key = k
                 /\ pc = "loop"

C4_Witness ==
    /\ last.op = "line"
    /\ last.args = <<"program", "get", "k1">>
    /\ RecordsOf(last.store, "k1") = {}
    /\ \E q \in queries \ last.queries : q.kind = "GetRecord" /\ q.key = "k1"
    /\ pc = "loop"

\* What C5 says of a put step: the store write comes before the one
\* put_record call, the store holds the record, and exactly one PutRecord
\* query with quorum One was added and is still active back in the loop.
PutWritesThenPublishes ==
    LET k == last.args[3]
        v == last.args[4]
    IN  /\ Cardinality(Calls("store.put")) = 1
        /\ Cardinality(Calls("put_record")) = 1
        /\ \A i \in Calls("store.put") : \A j \in Calls("put_record") : i < j
        /\ \E x \in store : x.key = k /\ x.value = v
        /\ Cardinality(queries \ last.queries) = 1
        /\ last.queries \subseteq queries
        /\ \A q \in queries \ last.queries :
               q.kind = "PutRecord" /\ q.key = k /\ q.quorum = "One"
        /\ pc = "loop"

\* C5 as stated, of the puts the loop dispatches: every put k v writes the
\* store and then publishes.
C5_Claim ==
    (last.op = "line" /\ PutCmd(last.args)) => PutWritesThenPublishes

\* C5 amended: every put k v whose local store write succeeds writes the
\* store first and then submits one Store query with quorum One, without
\* waiting for it.
C5_PutThenPublish ==
    (CmdStep /\ PutCmd(last.args) /\ last.res = "Ok") => PutWritesThenPublishes

C5_Witness ==
    /\ last.op = "line"
    /\ last.args = <<"program", "put", "k1", "v1">>
    /\ last.res = "Ok"
    /\ \E q \in queries \ last.queries : q.kind = "PutRecord" /\ q.quorum = "One"
    /\ pc = "loop"

\* C6 as stated: once an exit command has been dispatched, from an input
\* line or as the start-up command, the process loop has terminated.
C6_Claim == exitDispatched => pc = "exited"

\* C7: an exit line ends the loop in that very step, printing only
\* "Exiting..." and leaving the store and the active queries as they were,
\* whatever queries are active; once the loop has ended, the exit stays the
\* main task's latest step, so no query result is printed, and the store and
\* the abandoned queries stay as the exit found them.
C7_ExitAbandonsQueries ==
    /\ ExitLine
       => /\ pc = "exited"
          /\ last.trace = << <<"Exiting...", "-", "-">> >>
          /\ store = last.store
          /\ queries = last.queries
    /\ pc = "exited"
       => /\ ExitLine
          /\ store = last.store
          /\ queries = last.queries

C7_Witness ==
    /\ pc = "exited"
    /\ ExitLine
    /\ \E q \in queries : q.kind = "PutRecord"

\* C8 as stated, where no exit command was given: once stdin is at end of
\* input the producer has closed its queue, and once the loop has seen the
\* queue closed it has terminated.
C8_Claim ==
    ~ exitDispatched
    => /\ stdin = "eof" => prodPc = "done"
       /\ recvBranch = "disabled" => pc # "loop"

\* C9 as stated: after a command that fails, the event loop is still
\* running.
C9_Claim == (CmdStep /\ last.res = "Err") => pc = "loop"

\* C10: the start-up command runs at most once; before the start-up step
\* nothing has run and the loop has neither dispatched a line nor handled
\* an event; after it, a process started with arguments has run its command
\* exactly once, and one started without has run none and has printed the
\* usage guidance.
C10_StartupOnce ==
    /\ startup.runs <= 1
    /\ pc = "start" => (startup.runs = 0 /\ ~ loopActed)
    /\ pc # "start"
       => IF Len(argv) > 1
          THEN startup.runs = 1
          ELSE /\ startup.runs = 0
               /\ startup.trace = << <<"Usage: put, get, exit", "-", "-">> >>

C10_Witness ==
    /\ argv = <<"program", "put", "k1", "v1">>
    /\ startup.runs = 1
    /\ loopActed
    /\ last.op = "line"

\* C11: while the loop runs, a line waiting in the channel after an event
\* was handled is eventually dispatched, and the pending NewListenAddr
\* event is eventually handled, whatever lines keep arriving.
C11_FairMultiplexing ==
    /\ (pc = "loop" /\ chan # <<>> /\ last.op # "line") ~> (last.op = "line")
    /\ (pc = "loop" /\ listenPending) ~> (~ listenPending \/ pc # "loop")

C11_Witness ==
    /\ pc = "loop"
    /\ stdin = "eof"
    /\ Len(chan) = ChannelCapacity
    /\ last.op = "event"
    /\ ~ listenPending

\* The line the stdin task has read and not yet sent.
PendingSend == IF prodPc = "send" THEN <<lineBuf>> ELSE <<>>

\* C12: the channel never holds more lines than its capacity; a producer
\* facing a full channel stays suspended on its send; and while the loop
\* runs the lines received, then those buffered, then the one being sent
\* are the lines read, in order, none dropped or overwritten.
C12_BoundedNoLoss ==
    /\ Len(chan) <= ChannelCapacity
    /\ (prodPc = "send" /\ Len(chan) = ChannelCapacity) => ~ ENABLED ProducerSend
    /\ pc = "loop" => Take(recvLog \o chan \o PendingSend, LogCap) = readLog

C12_Witness ==
    /\ pc = "loop"
    /\ prodPc = "send"
    /\ Len(chan) = ChannelCapacity
    /\ chan[1] # chan[2]
    /\ Len(readLog) = LogCap
    /\ recvLog = <<>>

\* C19: the lines the loop has dispatched are, in order and each once, the
\* first of the lines the stdin task has read, whatever events the loop
\* handled in between.
C19_DispatchedPrefixOfRead ==
    /\ Len(recvLog) <= Len(readLog)
    /\ \A i \in DOMAIN recvLog : recvLog[i] = readLog[i]
    /\ (last.op = "line" /\ recvLog # <<>> /\ Len(recvLog) < LogCap)
       => <<"program">> \o SplitWhitespace(recvLog[Len(recvLog)]) = last.args

C19_Witness ==
    /\ Len(recvLog) = 2
    /\ recvLog[1] # recvLog[2]
    /\ recvLog[1] # <<>>
    /\ recvLog[2] # <<>>
    /\ last.op = "line"
    /\ Len(readLog) = LogCap

\* The step dispatches the input line `get k`.
DispatchesGet(k) ==
    /\ pc = "loop"
    /\ chan # <<>>
    /\ chan' = Tail(chan)
    /\ SplitWhitespace(Head(chan)) = <<"get", k>>

\* C13: a record of the local store is changed or removed only by a put
\* for its key whose local write succeeds, whatever the outcome of the
\* publish (the step that ends a query leaves the store as it was); and a
\* get for the key dispatched while the record is held prints its value.
C13_LocalCopyStays ==
    [][\A x \in store :
          /\ \/ x \in store'
             \/ /\ last'.op \in {"start", "line"}
                /\ PutCmd(last'.args)
                /\ last'.res = "Ok"
                /\ last'.args[3] = x.key
          /\ DispatchesGet(x.key)
             => /\ last'.trace[2] = <<"Found record locally", x.key, x.value>>
                /\ queries' = queries]_vars

C13_Witness ==
    /\ last.op = "event"
    /\ \E o \in {"QuorumFailed", "Timeout"} :
          Printed("Network event received", "k1", o)
    /\ [key |-> "k1", value |-> "v1", ok |-> TRUE] \in lastPut
    /\ \E x \in store : x.key = "k1" /\ x.value = "v1"
    /\ \A q \in queries : q.kind # "PutRecord"

\* C20: a put whose local store write returns an error stops there: the
\* store and the active queries are as before the command, put_record was
\* not called, and the command returned the error.
C20_FailedPutStops ==
    (CmdStep /\ PutCmd(last.args) /\ ~ Printed("Record stored locally", last.args[3], "-"))
    => /\ last.res = "Err"
       /\ store = last.store
       /\ queries = last.queries
       /\ Calls("put_record") = {}
       /\ Cardinality(Calls("store.put")) = 1

C20_Witness ==
    /\ last.op = "line"
    /\ last.args = <<"program", "put", "k1", "huge">>
    /\ last.res = "Err"
    /\ Printed("Error processing command", "-", "-")
    /\ \E x \in store : x.key = "k1" /\ x.value = "v1"
    /\ pc = "loop"

\* The latest step dispatched an input line that is neither a put with key
\* and value, nor a get with a key, nor an exit line.
MalformedLine ==
    /\ last.op = "line"
    /\ ~ PutCmd(last.args)
    /\ ~ GetCmd(last.args)
    /\ ~ ExitLine

\* C18 as stated: every input line that is not a well-formed put, get or
\* exit prints the usage message (lines read before the end of input).
C18_Claim ==
    (MalformedLine /\ stdin = "open")
    => Printed("Usage: put, get", "-", "-")

\* C18 amended: every input line that holds at least one word and is not a
\* well-formed put, get or exit prints the usage message and nothing else;
\* a line without a word prints nothing.
C18_UsageOnMalformed ==
    /\ (MalformedLine /\ Len(last.args) >= 2)
       => last.trace = << <<"Usage: put, get", "-", "-">> >>
    /\ (MalformedLine /\ Len(last.args) < 2) => last.trace = <<>>

C18_Witness ==
    /\ last.op = "line"
    /\ last.args = <<"program", "list">>
    /\ Printed("Usage: put, get", "-", "-")
    /\ pc = "loop"

\* C16: while the loop runs, a step of the stdin task (one that changes the
\* task's position, its line buffer or its reading of stdin) leaves the
\* store, the routing table, the active queries and the swarm's pending
\* events as they were and at most appends its line to the channel; and a
\* step that changes the store, the routing table or the queries is a step
\* of the main task, which leaves the stdin task's state alone and at most
\* takes the head of the channel.
C16_SingleOwner ==
    [][pc = "loop" =>
         /\ producerVars' # producerVars
            => /\ UNCHANGED << store, queries, nextQid, routing, expired,
                              listenPending, last >>
               /\ chan' = chan \/ chan' = Append(chan, lineBuf)
         /\ << store, queries, nextQid, routing >>'
               # << store, queries, nextQid, routing >>
            => /\ UNCHANGED producerVars
               /\ last'.op \in {"line", "event"}
               /\ chan' = chan \/ (chan # <<>> /\ chan' = Tail(chan))]_vars

C16_Witness ==
    /\ pc = "loop"
    /\ prodPc = "send"
    /\ nRead = MaxLines
    /\ chan # <<>>
    /\ store # {}
    /\ queries # {}

\* C17: with any number of queries active, the loop can dispatch the line
\* at the head of the channel and handle the next swarm event; and a put
\* or get that submitted a query has returned to the loop with that query
\* still active.
C17_QueriesNeverSuspendLoop ==
    /\ (pc = "loop" /\ queries # {} /\ chan # <<>>) => ENABLED LoopRecvLine
    /\ (pc = "loop" /\ queries # {} /\ listenPending)
       => ENABLED LoopNewListenAddr
    /\ (pc = "loop" /\ queries # {}) => ENABLED LoopOtherEvent
    /\ (CmdStep /\ Calls("put_record") \cup Calls("get_record") # {}
        /\ last.res = "Ok")
       => /\ pc = "loop"
          /\ last.queries \subseteq queries
          /\ Cardinality(queries) = Cardinality(last.queries) + 1

C17_Witness ==
    /\ pc = "loop"
    /\ last.op = "line"
    /\ PutCmd(last.args)
    /\ last.res = "Ok"
    /\ last.queries # {}
    /\ Cardinality(queries) >= 2
    /\ chan # <<>>

\* Query i is in the active set.
Active(i) == \E q \in queries : q.id = i

\* C15: every active query carries the configured timeout, fixed when it
\* was created (its record never changes while it is active), and while
\* the loop runs every active query eventually leaves the active set.
C15_QueriesEnd ==
    /\ [](\A q \in queries : q.timeout = query_timeout_secs)
    /\ [][\A q \in queries : q \in queries' \/ ~ Active(q.id)']_vars
    /\ \A i \in QueryIds :
          (pc = "loop" /\ Active(i)) ~> (~ Active(i) \/ pc # "loop")

C15_Witness ==
    /\ pc = "loop"
    /\ last.op = "event"
    /\ last.late
    /\ \E q \in last.queries \ queries :
          /\ q.candidates # {}
          /\ q.timeout = query_timeout_secs
          /\ Printed("Network event received", q.key, "Timeout")

\* C14: a GetRecord query without candidates can end at the next poll of
\* the swarm, deadline elapsed or not, and only as NotFound; the query a
\* get submits on an empty store with no peer known has no candidates; and
\* the event that ends such a query reports NotFound.
C14_NotFoundWithoutWaiting ==
    /\ \A q \in queries :
          (pc = "loop" /\ q.kind = "GetRecord" /\ q.candidates = {})
          => /\ ENABLED QueryEnds(q)
             /\ QueryOutcomes(q) = {"NotFound"}
    /\ (CmdStep /\ GetCmd(last.args) /\ last.store = {} /\ routing = {})
       => \A q \in queries \ last.queries :
              q.kind = "GetRecord" /\ q.candidates = {}
    /\ last.op = "event"
       => \A q \in last.queries \ queries :
              (q.kind = "GetRecord" /\ q.candidates = {})
              => last.trace = << <<"Network event received", q.key,
                                   "NotFound">> >>

C14_Witness ==
    /\ last.op = "event"
    /\ ~ last.late
    /\ last.store = {}
    /\ routing = {}
    /\ \E q \in last.queries \ queries :
          /\ q.kind = "GetRecord"
          /\ q.candidates = {}
          /\ Printed("Network event received", q.key, "NotFound")

====
